---- MODULE Spec2Model ----
(***************************************************************************)
(* The OLAP cube of src/models/olap_cube.py: one OlapCube instance holding *)
(* df_base, and olap_query calls running against it, each call a pipeline  *)
(* of stages (resolve hierarchy, coerce types, apply filters, aggregate,   *)
(* sort). Around it, src/dss_api.py: the module-level olap_cube_instance,  *)
(* load_data_from_dw that sets it, and the handler of GET /api/olap/query. *)
(*                                                                         *)
(* Representation.                                                         *)
(*  - A Python string that is a group_by_dimension is a sequence of        *)
(*    tokens: the invisible characters "SP" (U+0020), "NBSP" (U+00A0),     *)
(*    "FEFF" (U+FEFF), and visible pieces ("Anio", "_", "Producto", ...).  *)
(*  - An Optional filter argument is <<>> (None) or <<v>> (the value v).   *)
(*  - A DataFrame is [columns, dtypes, rows]: the ordered column names,    *)
(*    the dtype of each measure column present, and the rows, each a       *)
(*    function from the column names to values.                            *)
(*  - Measure values are fixed-point integers (tenths); a mean is the      *)
(*    exact fraction [num, den] in lowest terms. Floating-point rounding   *)
(*    and null values are not modelled.                                    *)
(***************************************************************************)
EXTENDS Integers, Sequences, FiniteSets, TLC

VARIABLES
    df_built,           \* the data_frame handed to OlapCube.__init__
    df_base,            \* self.df_base of the instance
    pc,                 \* per call: the stage the call is at
    args,               \* per call: group_by_dimension, anio, producto, proyecto
    cleaned_dimension,  \* per call: local cleaned_dimension
    groups,             \* per call: local groups
    df,                 \* per call: local df (the clone, coerced, then filtered)
    df_result,          \* per call: the frame being built by line 93 / returned
    error,              \* per call: the exception raised, if any
    olap_cube_instance, \* dss_api.py: the module-level instance, or None
    load,               \* dss_api.py: the last run of load_data_from_dw
    h_pc,               \* handler of /api/olap/query: where it is
    request,            \* handler: the request's header and query parameters
    response            \* handler: the response sent

apiVars == <<olap_cube_instance, load, h_pc, request, response>>

vars == <<df_built, df_base, pc, args, cleaned_dimension, groups, df, df_result,
          error, olap_cube_instance, load, h_pc, request, response>>

Range(s) == {s[i] : i \in DOMAIN s}

----------------------------------------------------------------------------
(* Bounds of the model.                                                    *)

\* Longest snapshot (rows) explored by Spec.
MaxRows == 3
\* Longest run of invisible characters put before / after a key (SpecResolve).
MaxPad == 2
\* Longest snapshot explored by SpecSchema and SpecConc.
MaxRowsSmall == 2

----------------------------------------------------------------------------
(* Class attributes.                                                       *)

HierarchyKeys ==
    << <<"Anio">>, <<"Producto">>, <<"Proyecto">>,
       <<"Anio", "_", "Producto">>, <<"Proyecto", "_", "Anio">> >>

HIERARCHY_MAP ==
    [k \in Range(HierarchyKeys) |->
        CASE k = <<"Anio">> -> <<"anio">>
          [] k = <<"Producto">> -> <<"producto">>
          [] k = <<"Proyecto">> -> <<"proyecto">>
          [] k = <<"Anio", "_", "Producto">> -> <<"anio", "producto">>
          [] k = <<"Proyecto", "_", "Anio">> -> <<"proyecto", "anio">>]

VALID_MEASURES_NAMES ==
    <<"cpi_index_promedio", "spi_index_promedio",
      "schedule_variance_sum", "densidad_defectos_promedio">>

DimensionColumns == <<"anio", "producto", "proyecto">>

AllColumns == DimensionColumns \o VALID_MEASURES_NAMES

----------------------------------------------------------------------------
(* str.strip() and str.replace() on token sequences.                       *)

\* The characters of the model that Python's str.strip() treats as whitespace:
\* U+0020 and U+00A0 are (str.isspace), U+FEFF is not.
PyWhitespace == {"SP", "NBSP"}

RECURSIVE LStrip(_)
LStrip(s) ==
    IF s = <<>> \/ Head(s) \notin PyWhitespace THEN s ELSE LStrip(Tail(s))

RECURSIVE RStrip(_)
RStrip(s) ==
    IF s = <<>> \/ s[Len(s)] \notin PyWhitespace
    THEN s
    ELSE RStrip(SubSeq(s, 1, Len(s) - 1))

Strip(s) == RStrip(LStrip(s))

Replace(s, ch) == SelectSeq(s, LAMBDA c : c # ch)

\* line 49: group_by_dimension.strip().replace('\ufeff', '').replace('\xa0', '')
CleanDimension(s) == Replace(Replace(Strip(s), "FEFF"), "NBSP")

----------------------------------------------------------------------------
(* Exceptions.                                                             *)

NoError == [type |-> "None", message |-> "", keys |-> <<>>, column |-> ""]

InvalidHierarchyError ==
    [type |-> "ValueError",
     message |-> "Jerarquia de agrupacion invalida. Use una de:",
     keys |-> HierarchyKeys, column |-> ""]

KpiColumnError(c) ==
    [type |-> "ValueError",
     message |-> "Error interno: Columna KPI no encontrada",
     keys |-> <<>>, column |-> c]

\* polars.exceptions.ColumnNotFoundError, which no handler of olap_query catches
\* outside the cast of lines 61-67; it is not a ValueError.
ColumnNotFoundError(c) ==
    [type |-> "ColumnNotFoundError", message |-> "", keys |-> <<>>, column |-> c]

----------------------------------------------------------------------------
(* Frames.                                                                 *)

EmptyFrame == [columns |-> <<>>, dtypes |-> <<>>, rows |-> <<>>]

HasColumn(frame, c) == c \in Range(frame.columns)

\* The first name of `names` that is no column of `frame` ("" when all are).
RECURSIVE FirstMissing(_, _)
FirstMissing(frame, names) ==
    IF names = <<>> THEN ""
    ELSE IF ~HasColumn(frame, Head(names)) THEN Head(names)
    ELSE FirstMissing(frame, Tail(names))

----------------------------------------------------------------------------
(* Stage 1, lines 51-55: the lookup in HIERARCHY_MAP.                      *)

\* A lookup that falls back to the first hierarchy for an unknown key.
ResolveGroupsWithDefault(cleaned) ==
    IF cleaned \in DOMAIN HIERARCHY_MAP
    THEN [found |-> TRUE, groups |-> HIERARCHY_MAP[cleaned]]
    ELSE [found |-> TRUE, groups |-> HIERARCHY_MAP[HierarchyKeys[1]]]

ResolveGroups(cleaned) ==
    IF cleaned \in DOMAIN HIERARCHY_MAP
    THEN [found |-> TRUE, groups |-> HIERARCHY_MAP[cleaned]]
    ELSE [found |-> FALSE, groups |-> <<>>]

----------------------------------------------------------------------------
(* Stage 2, lines 60-67: the cast of the KPI columns to Float64. The cast  *)
(* of a numeric column keeps every value; a KPI column that is absent      *)
(* raises ColumnNotFoundError, which the handler turns into a ValueError.  *)

CastMeasures(frame) ==
    LET missing == FirstMissing(frame, VALID_MEASURES_NAMES)
    IN  IF missing # ""
        THEN [ok |-> FALSE, column |-> missing, frame |-> EmptyFrame]
        ELSE [ok |-> TRUE, column |-> "",
              frame |-> [frame EXCEPT
                            !.dtypes = [m \in DOMAIN frame.dtypes |-> "Float64"]]]

----------------------------------------------------------------------------
(* Stage 3, lines 69-83: the filter.                                       *)

\* Python truthiness of an Optional[int] / Optional[str] argument: None is
\* falsy, and so are the integer 0 and the empty string.
Truthy(opt, zero) == opt # <<>> /\ opt[1] # zero

\* lines 70-77: filter_conditions, in the order they are appended
FilterConditions(a) ==
       (IF Truthy(a.anio, 0)
        THEN << [column |-> "anio", value |-> a.anio[1]] >> ELSE <<>>)
    \o (IF Truthy(a.producto, "")
        THEN << [column |-> "producto", value |-> a.producto[1]] >> ELSE <<>>)
    \o (IF Truthy(a.proyecto, "")
        THEN << [column |-> "proyecto", value |-> a.proyecto[1]] >> ELSE <<>>)

\* The conditions joined with | in place of &.
AnyConditionHolds(row, conds) ==
    \E i \in DOMAIN conds : row[conds[i].column] = conds[i].value

\* lines 80-82: combined_filter, the conjunction of the conditions, on one row
CombinedFilter(row, conds) ==
    \A i \in DOMAIN conds : row[conds[i].column] = conds[i].value

\* lines 79-83: df.filter(combined_filter), only when there is a condition;
\* a condition on a column the frame lacks raises ColumnNotFoundError
FilterFrame(frame, conds) ==
    LET missing == FirstMissing(frame, [i \in DOMAIN conds |-> conds[i].column])
    IN  IF conds = <<>>
        THEN [ok |-> TRUE, column |-> "", frame |-> frame]
        ELSE IF missing # ""
        THEN [ok |-> FALSE, column |-> missing, frame |-> EmptyFrame]
        ELSE [ok |-> TRUE, column |-> "",
              frame |-> [frame EXCEPT
                  !.rows = SelectSeq(frame.rows,
                                     LAMBDA r : CombinedFilter(r, conds))]]

----------------------------------------------------------------------------
(* Stage 4, lines 85-93: group_by(groups).agg(aggregations).               *)

\* lines 86-91
Aggregations ==
    << [fn |-> "mean", column |-> "cpi_index_promedio"],
       [fn |-> "mean", column |-> "spi_index_promedio"],
       [fn |-> "sum",  column |-> "schedule_variance_sum"],
       [fn |-> "mean", column |-> "densidad_defectos_promedio"] >>

RECURSIVE SumSeq(_)
SumSeq(s) == IF s = <<>> THEN 0 ELSE Head(s) + SumSeq(Tail(s))

Abs(x) == IF x < 0 THEN -x ELSE x

RECURSIVE GCD(_, _)
GCD(a, b) == IF b = 0 THEN a ELSE GCD(b, a % b)

\* pl.mean in place of pl.sum (the whole part of the mean).
PlSumAsMean(values) == SumSeq(values) \div Len(values)

\* pl.sum over a Float64 column
PlSum(values) == SumSeq(values)

\* pl.first in place of pl.mean: the group's first value.
PlFirst(values) == [num |-> values[1], den |-> 1]

\* pl.mean over a Float64 column with at least one value: sum / count, kept
\* as the exact fraction in lowest terms
PlMean(values) ==
    LET s == SumSeq(values)
        n == Len(values)
        g == GCD(Abs(s), n)
    IN  [num |-> s \div g, den |-> n \div g]

GroupKey(row, gs) == [i \in DOMAIN gs |-> row[gs[i]]]

GroupKeysOf(rows, gs) == {GroupKey(rows[i], gs) : i \in DOMAIN rows}

GroupRows(rows, gs, key) == SelectSeq(rows, LAMBDA r : GroupKey(r, gs) = key)

ColumnValues(rows, c) == [i \in DOMAIN rows |-> rows[i][c]]

Reduce(agg, rows) ==
    IF agg.fn = "mean"
    THEN PlMean(ColumnValues(rows, agg.column))
    ELSE PlSum(ColumnValues(rows, agg.column))

AggregationOf(c) ==
    CHOOSE agg \in Range(Aggregations) : agg.column = c

\* one output row of .agg(aggregations): the group's key, then one value per
\* aggregation, under the aggregation's alias
AggRow(rows, gs, key) ==
    LET members == GroupRows(rows, gs, key)
    IN  [c \in Range(gs) \cup {Aggregations[i].column : i \in DOMAIN Aggregations} |->
            IF c \in Range(gs)
            THEN members[1][c]
            ELSE Reduce(AggregationOf(c), members)]

\* The orders in which group_by may emit the groups (maintain_order is not
\* set, so polars promises none): every arrangement of the distinct keys.
GroupOrders(rows, gs) ==
    LET keys == GroupKeysOf(rows, gs)
        n == Cardinality(keys)
    IN  {o \in [1..n -> keys] : \A i, j \in 1..n : i # j => o[i] # o[j]}

\* A window in place of a grouping: one output row per input row.
AggOverRows(frame, gs, order) ==
    [columns |-> gs \o [i \in DOMAIN Aggregations |-> Aggregations[i].column],
     dtypes |-> [i \in {Aggregations[j].column : j \in DOMAIN Aggregations}
                     |-> "Float64"],
     rows |-> [i \in DOMAIN frame.rows |->
                  AggRow(frame.rows, gs, GroupKey(frame.rows[i], gs))]]

\* df.group_by(groups).agg(aggregations), the groups emitted in `order`
GroupByAgg(frame, gs, order) ==
    [columns |-> gs \o [i \in DOMAIN Aggregations |-> Aggregations[i].column],
     dtypes |-> [i \in {Aggregations[j].column : j \in DOMAIN Aggregations}
                     |-> "Float64"],
     rows |-> [i \in DOMAIN order |-> AggRow(frame.rows, gs, order[i])]]

----------------------------------------------------------------------------
(* Stage 5, line 93: .sort(groups).                                        *)

\* The code points of the dimension strings of the model.
StrCodes(s) ==
    CASE s = "" -> <<>>
      [] s = "A" -> <<65>>
      [] s = "B" -> <<66>>
      [] s = "P1" -> <<80, 49>>
      [] s = "P2" -> <<80, 50>>

RECURSIVE SeqLess(_, _)
SeqLess(a, b) ==
    IF b = <<>> THEN FALSE
    ELSE IF a = <<>> THEN TRUE
    ELSE IF Head(a) # Head(b) THEN Head(a) < Head(b)
    ELSE SeqLess(Tail(a), Tail(b))

\* natural order of a column: numeric for anio, lexicographic for the strings
ValueLess(c, x, y) ==
    IF c = "anio" THEN x < y ELSE SeqLess(StrCodes(x), StrCodes(y))

\* A sort on the first grouping column only.
RowLessFirstOnly(r1, r2, gs) ==
    gs # <<>> /\ ValueLess(Head(gs), r1[Head(gs)], r2[Head(gs)])

\* row r1 sorts strictly before r2 by the columns gs, compared left to right
RECURSIVE RowLess(_, _, _)
RowLess(r1, r2, gs) ==
    IF gs = <<>> THEN FALSE
    ELSE IF ValueLess(Head(gs), r1[Head(gs)], r2[Head(gs)]) THEN TRUE
    ELSE IF ValueLess(Head(gs), r2[Head(gs)], r1[Head(gs)]) THEN FALSE
    ELSE RowLess(r1, r2, Tail(gs))

\* insertion of r into sorted rows, after the rows that do not sort after it
RECURSIVE InsertRow(_, _, _)
InsertRow(r, sorted, gs) ==
    IF sorted = <<>> THEN <<r>>
    ELSE IF RowLess(r, Head(sorted), gs) THEN <<r>> \o sorted
    ELSE <<Head(sorted)>> \o InsertRow(r, Tail(sorted), gs)

RECURSIVE SortRows(_, _)
SortRows(rows, gs) ==
    IF rows = <<>> THEN <<>>
    ELSE InsertRow(rows[Len(rows)], SortRows(SubSeq(rows, 1, Len(rows) - 1), gs), gs)

\* The frame left in the order group_by emitted it.
Unsorted(frame, gs) == frame

\* frame.sort(groups): ascending, stable
SortFrame(frame, gs) == [frame EXCEPT !.rows = SortRows(frame.rows, gs)]

----------------------------------------------------------------------------
(* OlapCube.__init__ and the calls of olap_query.                          *)

Threads == {"t1", "t2"}

MainThread == "t1"

NoArgs == [group_by_dimension |-> <<>>, anio |-> <<>>, producto |-> <<>>,
           proyecto |-> <<>>]

\* dss_api.py line 22: olap_cube_instance = None
NoneInstance == [kind |-> "None", df_base |-> EmptyFrame]

NoLoad == [done |-> FALSE, readable |-> FALSE, raw_df |-> EmptyFrame, error |-> NoError]

NoRequest ==
    [authorization |-> <<>>, region |-> <<>>, anio |-> <<>>, producto |-> <<>>,
     group_by_dimension |-> <<>>]

NoResponse == [status |-> 0, exception |-> "", body |-> <<>>]

\* dss_api.py as imported: nothing loaded, no request in the handler
ApiIdle ==
    /\ olap_cube_instance = NoneInstance
    /\ load = NoLoad
    /\ h_pc = "Idle"
    /\ request = NoRequest
    /\ response = NoResponse

\* lines 30-34: the constructor keeps the frame it is given (a non-empty one)
Construct(frames) ==
    /\ df_built \in frames
    /\ df_built.rows # <<>>
    /\ df_base = df_built
    /\ pc = [t \in Threads |-> "Idle"]
    /\ args = [t \in Threads |-> NoArgs]
    /\ cleaned_dimension = [t \in Threads |-> <<>>]
    /\ groups = [t \in Threads |-> <<>>]
    /\ df = [t \in Threads |-> EmptyFrame]
    /\ df_result = [t \in Threads |-> EmptyFrame]
    /\ error = [t \in Threads |-> NoError]
    /\ ApiIdle

\* lines 36-43: a caller enters olap_query with its arguments
Call(t, dims, anios, productos, proyectos) ==
    /\ pc[t] = "Idle"
    /\ \E d \in dims, a \in anios, p \in productos, y \in proyectos :
          args' = [args EXCEPT ![t] = [group_by_dimension |-> d, anio |-> a,
                                       producto |-> p, proyecto |-> y]]
    /\ pc' = [pc EXCEPT ![t] = "ResolveHierarchy"]
    /\ UNCHANGED <<apiVars, df_built, df_base, cleaned_dimension, groups, df, df_result, error>>

\* The cleanup without the membership test: an unknown key raises nothing
\* here and the call goes on to the cast.
ResolveHierarchyUnchecked(t) ==
    /\ pc[t] = "ResolveHierarchy"
    /\ LET cleaned == CleanDimension(args[t].group_by_dimension)
           r == ResolveGroups(cleaned)
       IN  /\ cleaned_dimension' = [cleaned_dimension EXCEPT ![t] = cleaned]
           /\ groups' = [groups EXCEPT ![t] = r.groups]
           /\ error' = [error EXCEPT ![t] = NoError]
           /\ pc' = [pc EXCEPT ![t] = "CoerceTypes"]
    /\ UNCHANGED <<apiVars, df_built, df_base, args, df, df_result>>

\* lines 48-55
ResolveHierarchy(t) ==
    /\ pc[t] = "ResolveHierarchy"
    /\ LET cleaned == CleanDimension(args[t].group_by_dimension)
           r == ResolveGroups(cleaned)
       IN  /\ cleaned_dimension' = [cleaned_dimension EXCEPT ![t] = cleaned]
           /\ groups' = [groups EXCEPT ![t] = r.groups]
           /\ error' = [error EXCEPT ![t] =
                           IF r.found THEN NoError ELSE InvalidHierarchyError]
           /\ pc' = [pc EXCEPT ![t] = IF r.found THEN "CoerceTypes" ELSE "Error"]
    /\ UNCHANGED <<apiVars, df_built, df_base, args, df, df_result>>

\* line 58: self.df_base.clone(), the frame the rest of the call works on
CloneBase == df_base

\* The cast applied to self.df_base itself instead of to the clone.
BaseCastInPlace(cast) == IF cast.ok THEN cast.frame ELSE df_base

\* what line 58 and lines 62-64 leave in self.df_base: nothing is written to it
BaseAfterCoerce(cast) == df_base

\* lines 57-67
CoerceTypes(t) ==
    /\ pc[t] = "CoerceTypes"
    /\ LET cast == CastMeasures(CloneBase)
       IN  /\ df' = [df EXCEPT ![t] = cast.frame]
           /\ df_base' = BaseAfterCoerce(cast)
           /\ error' = [error EXCEPT ![t] =
                           IF cast.ok THEN NoError ELSE KpiColumnError(cast.column)]
           /\ pc' = [pc EXCEPT ![t] = IF cast.ok THEN "ApplyFilters" ELSE "Error"]
    /\ UNCHANGED <<apiVars, df_built, args, cleaned_dimension, groups, df_result>>

\* lines 69-83
ApplyFilters(t) ==
    /\ pc[t] = "ApplyFilters"
    /\ LET f == FilterFrame(df[t], FilterConditions(args[t]))
       IN  /\ df' = [df EXCEPT ![t] = f.frame]
           /\ error' = [error EXCEPT ![t] =
                           IF f.ok THEN NoError ELSE ColumnNotFoundError(f.column)]
           /\ pc' = [pc EXCEPT ![t] = IF f.ok THEN "Aggregate" ELSE "Error"]
    /\ UNCHANGED <<apiVars, df_built, df_base, args, cleaned_dimension, groups, df_result>>

\* lines 85-93, df.group_by(groups).agg(aggregations): a grouping column the
\* frame lacks raises ColumnNotFoundError; the groups come in any order
Aggregate(t) ==
    /\ pc[t] = "Aggregate"
    /\ LET missing == FirstMissing(df[t], groups[t])
       IN  IF missing # ""
           THEN /\ error' = [error EXCEPT ![t] = ColumnNotFoundError(missing)]
                /\ pc' = [pc EXCEPT ![t] = "Error"]
                /\ df' = [df EXCEPT ![t] = EmptyFrame]
                /\ UNCHANGED df_result
           ELSE /\ \E order \in GroupOrders(df[t].rows, groups[t]) :
                      df_result' = [df_result EXCEPT ![t] =
                                       GroupByAgg(df[t], groups[t], order)]
                /\ pc' = [pc EXCEPT ![t] = "Sort"]
                /\ UNCHANGED <<df, error>>
    /\ UNCHANGED <<apiVars, df_built, df_base, args, cleaned_dimension, groups>>

\* line 93, .sort(groups), and line 95: the sorted frame is what is returned
Sort(t) ==
    /\ pc[t] = "Sort"
    /\ df_result' = [df_result EXCEPT ![t] = SortFrame(df_result[t], groups[t])]
    /\ pc' = [pc EXCEPT ![t] = "Done"]
    /\ UNCHANGED <<apiVars, df_built, df_base, args, cleaned_dimension, groups, df, error>>

\* the call is over (returned or raised): its frame and locals are gone
Return(t) ==
    /\ pc[t] \in {"Done", "Error"}
    /\ pc' = [pc EXCEPT ![t] = "Idle"]
    /\ args' = [args EXCEPT ![t] = NoArgs]
    /\ cleaned_dimension' = [cleaned_dimension EXCEPT ![t] = <<>>]
    /\ groups' = [groups EXCEPT ![t] = <<>>]
    /\ df' = [df EXCEPT ![t] = EmptyFrame]
    /\ df_result' = [df_result EXCEPT ![t] = EmptyFrame]
    /\ error' = [error EXCEPT ![t] = NoError]
    /\ UNCHANGED <<apiVars, df_built, df_base>>

\* lines 36-95 as one function of the frame in self.df_base and the arguments:
\* the exception raised (NoError when none) and the frame returned
OlapQuery(base, a) ==
    LET r == ResolveGroups(CleanDimension(a.group_by_dimension))
        cast == CastMeasures(base)
        f == FilterFrame(cast.frame, FilterConditions(a))
        missing == FirstMissing(f.frame, r.groups)
        order == CHOOSE o \in GroupOrders(f.frame.rows, r.groups) : TRUE
    IN  IF ~r.found
        THEN [error |-> InvalidHierarchyError, frame |-> EmptyFrame]
        ELSE IF ~cast.ok
        THEN [error |-> KpiColumnError(cast.column), frame |-> EmptyFrame]
        ELSE IF ~f.ok
        THEN [error |-> ColumnNotFoundError(f.column), frame |-> EmptyFrame]
        ELSE IF missing # ""
        THEN [error |-> ColumnNotFoundError(missing), frame |-> EmptyFrame]
        ELSE [error |-> NoError,
              frame |-> SortFrame(GroupByAgg(f.frame, r.groups, order), r.groups)]

----------------------------------------------------------------------------
(* src/dss_api.py: the startup load and the handler of GET /api/olap/query. *)
(* An exception is a record like the cube's errors; a response is the HTTP  *)
(* status, the type of the exception the handler's try block caught ("" if  *)
(* none) and the body (the rows of a 200).                                  *)

DSS_ACCESS_TOKEN == "Bearer DSS-Access-Token"

PROJECT_LEAD_TOKEN == "Bearer Project-Lead-Token"

EmptyBaseError ==
    [type |-> "ValueError",
     message |-> "El DataFrame del cubo no puede estar vacio.",
     keys |-> <<>>, column |-> ""]

\* whatever create_engine / pl.read_database raise when the table cannot be read
ReadDatabaseError ==
    [type |-> "DatabaseError", message |-> "", keys |-> <<>>, column |-> ""]

\* olap_query() got an unexpected keyword argument
UnexpectedKeywordError(k) ==
    [type |-> "TypeError", message |-> "unexpected keyword argument",
     keys |-> <<>>, column |-> k]

\* 'NoneType' object has no attribute 'olap_query'
NoneAttributeError ==
    [type |-> "AttributeError", message |-> "NoneType has no attribute olap_query",
     keys |-> <<>>, column |-> ""]

\* OlapCube(data_frame) that skips the check of lines 31-32
NewOlapCubeUnchecked(data_frame) ==
    [error |-> NoError, instance |-> [kind |-> "OlapCube", df_base |-> data_frame]]

\* olap_cube.py lines 30-34, OlapCube(data_frame): the exception raised and the
\* instance made
NewOlapCube(data_frame) ==
    IF data_frame.rows = <<>>
    THEN [error |-> EmptyBaseError, instance |-> NoneInstance]
    ELSE [error |-> NoError,
          instance |-> [kind |-> "OlapCube", df_base |-> data_frame]]

\* lines 31-51, load_data_from_dw on one of `reads`, each the outcome of
\* pl.read_database: the table could not be read, or raw_df
LoadDataFromDw(reads) ==
    \E rd \in reads :
        LET made == NewOlapCube(rd.raw_df)
            err == IF rd.readable THEN made.error ELSE ReadDatabaseError
        IN  /\ olap_cube_instance' =
                    IF err = NoError THEN made.instance ELSE NoneInstance
            /\ load' = [done |-> TRUE, readable |-> rd.readable,
                        raw_df |-> rd.raw_df, error |-> err]
            /\ UNCHANGED <<h_pc, request, response>>
            /\ UNCHANGED <<df_built, df_base, pc, args, cleaned_dimension, groups,
                           df, df_result, error>>

\* line 31: the startup event runs the load once, before any request is served
Startup(reads) ==
    /\ ~load.done
    /\ LoadDataFromDw(reads)

\* load_data_from_dw run again while the service is up
Reload(reads) ==
    /\ load.done
    /\ LoadDataFromDw(reads)

\* lines 103-109: a request enters the handler
Receive(requests) ==
    /\ load.done
    /\ h_pc = "Idle"
    /\ request' \in requests
    /\ h_pc' = "Authorize"
    /\ response' = NoResponse
    /\ UNCHANGED <<olap_cube_instance, load>>
    /\ UNCHANGED <<df_built, df_base, pc, args, cleaned_dimension, groups,
                   df, df_result, error>>

Authorized(req) ==
    /\ req.authorization # <<>>
    /\ req.authorization[1] \in {DSS_ACCESS_TOKEN, PROJECT_LEAD_TOKEN}

\* lines 114-115
Authorize ==
    /\ h_pc = "Authorize"
    /\ IF Authorized(request)
       THEN /\ h_pc' = "CheckInstance"
            /\ UNCHANGED response
       ELSE /\ h_pc' = "Responded"
            /\ response' = [status |-> 403, exception |-> "", body |-> <<>>]
    /\ UNCHANGED <<olap_cube_instance, load, request>>
    /\ UNCHANGED <<df_built, df_base, pc, args, cleaned_dimension, groups,
                   df, df_result, error>>

\* lines 118-120
CheckInstance ==
    /\ h_pc = "CheckInstance"
    /\ IF olap_cube_instance.kind = "None"
       THEN /\ h_pc' = "Responded"
            /\ response' = [status |-> 503, exception |-> "", body |-> <<>>]
       ELSE /\ h_pc' = "CallCube"
            /\ UNCHANGED response
    /\ UNCHANGED <<olap_cube_instance, load, request>>
    /\ UNCHANGED <<df_built, df_base, pc, args, cleaned_dimension, groups,
                   df, df_result, error>>

\* olap_cube.py lines 36-43: the parameters of OlapCube.olap_query after self
OlapQueryParameters == {"group_by_dimension", "anio", "producto", "proyecto"}

\* lines 125-128: the keywords of the handler's call
CallKeywords == <<"group_by_dimension", "region", "anio", "producto">>

\* the first of `keywords` that is no parameter ("" when all are)
RECURSIVE FirstUnexpected(_)
FirstUnexpected(keywords) ==
    IF keywords = <<>> THEN ""
    ELSE IF Head(keywords) \notin OlapQueryParameters THEN Head(keywords)
    ELSE FirstUnexpected(Tail(keywords))

\* what the cube's olap_query gets from a request when the keywords bind:
\* proyecto is never passed and keeps its default None
EngineArgs(req) ==
    [group_by_dimension |-> req.group_by_dimension, anio |-> req.anio,
     producto |-> req.producto, proyecto |-> <<>>]

\* lines 124-129: olap_cube_instance.olap_query(group_by_dimension=..,
\* region=.., anio=.., producto=..) on the instance the global holds now
CallOlapQuery(inst, req) ==
    IF inst.kind = "None"
    THEN [error |-> NoneAttributeError, frame |-> EmptyFrame]
    ELSE IF FirstUnexpected(CallKeywords) # ""
    THEN [error |-> UnexpectedKeywordError(FirstUnexpected(CallKeywords)),
          frame |-> EmptyFrame]
    ELSE OlapQuery(inst.df_base, EngineArgs(req))

\* lines 131-142: the HTTPException(404) of line 133 is raised inside the try
\* and is an Exception, so line 141 catches it
ResponseOf(outcome) ==
    IF outcome.error = NoError
    THEN IF outcome.frame.rows = <<>>
         THEN [status |-> 500, exception |-> "HTTPException", body |-> <<>>]
         ELSE [status |-> 200, exception |-> "", body |-> outcome.frame.rows]
    ELSE IF outcome.error.type = "ValueError"
    THEN [status |-> 400, exception |-> "ValueError", body |-> <<>>]
    ELSE [status |-> 500, exception |-> outcome.error.type, body |-> <<>>]

\* lines 122-142
CallCube ==
    /\ h_pc = "CallCube"
    /\ response' = ResponseOf(CallOlapQuery(olap_cube_instance, request))
    /\ h_pc' = "Responded"
    /\ UNCHANGED <<olap_cube_instance, load, request>>
    /\ UNCHANGED <<df_built, df_base, pc, args, cleaned_dimension, groups,
                   df, df_result, error>>

\* the response is sent and the handler is free for the next request
Respond ==
    /\ h_pc = "Responded"
    /\ h_pc' = "Idle"
    /\ request' = NoRequest
    /\ response' = NoResponse
    /\ UNCHANGED <<olap_cube_instance, load>>
    /\ UNCHANGED <<df_built, df_base, pc, args, cleaned_dimension, groups,
                   df, df_result, error>>

----------------------------------------------------------------------------
(* Inputs: the snapshots the instance is built on and the arguments of the *)
(* calls.                                                                  *)

Row(a, p, y, cpi, spi, sv, dd) ==
    [anio |-> a, producto |-> p, proyecto |-> y,
     cpi_index_promedio |-> cpi, spi_index_promedio |-> spi,
     schedule_variance_sum |-> sv, densidad_defectos_promedio |-> dd]

\* Rows of the materialized cube; measures in tenths (cpi 8 is 0.8).
RowPool ==
    { Row(2023, "A", "P1",  8, 10,  10, 1),
      Row(2023, "B", "P1", 12,  9, -20, 2),
      Row(2024, "A", "P2", 10, 11,  30, 1),
      Row(2024, "B", "P1", 11,  8, -10, 4) }

RowSeqs(n) == UNION {[1..k -> RowPool] : k \in 1..n}

\* The frame with the given rows, without the columns in `missing`, whose
\* schedule_variance_sum column has dtype svType (the pool's values of that
\* column are whole numbers, so an integer column can hold them).
Frame(rows, missing, svType) ==
    LET cols == SelectSeq(AllColumns, LAMBDA c : c \notin missing)
    IN  [columns |-> cols,
         dtypes |-> [m \in Range(VALID_MEASURES_NAMES) \ missing |->
                        IF m = "schedule_variance_sum" THEN svType ELSE "Float64"],
         rows |-> [i \in DOMAIN rows |-> [c \in Range(cols) |-> rows[i][c]]]]

\* Snapshots that keep the contract: every declared column, at least one row.
WellFormedSnapshots(n) ==
    {Frame(rows, {}, t) : rows \in RowSeqs(n), t \in {"Int64", "Float64"}}

\* Snapshots that lack one declared column.
FaultySnapshots(n) ==
    {Frame(rows, {c}, "Float64") : rows \in RowSeqs(n), c \in Range(AllColumns)}

\* The snapshot of the spec's scenario: (2023,A,0.8), (2023,B,1.2), (2024,A,1.0).
ScenarioRows ==
    << Row(2023, "A", "P1",  8, 10,  10, 1),
       Row(2023, "B", "P1", 12,  9, -20, 2),
       Row(2024, "A", "P2", 10, 11,  30, 1) >>

Invisible == {"SP", "NBSP", "FEFF"}

Pads(n) == UNION {[1..k -> Invisible] : k \in 0..n}

UnregisteredDims == { <<"NotARealKey">>, <<"anio">>, <<>> }

\* group_by_dimension values of Spec: the keys, unregistered strings, and keys
\* with invisible characters around or inside them
DimInputs ==
    Range(HierarchyKeys) \cup UnregisteredDims
        \cup { <<"SP", "Anio", "SP">>, <<"Anio", "FEFF", "_", "Producto">> }

\* every key, and an unregistered string, between two pads
PaddedDims(n) ==
    {pre \o k \o post :
        k \in Range(HierarchyKeys) \cup {<<"NotARealKey">>},
        pre \in Pads(n), post \in Pads(n)}

AnioInputs == { <<>>, <<0>>, <<1999>>, <<2023>> }

ProductoInputs == { <<>>, <<"">>, <<"A">> }

ProyectoInputs == { <<>>, <<"P1">> }

----------------------------------------------------------------------------
(* Specifications.                                                         *)

Stage(t) ==
    \/ ResolveHierarchy(t)
    \/ CoerceTypes(t)
    \/ ApplyFilters(t)
    \/ Aggregate(t)
    \/ Sort(t)
    \/ Return(t)

\* One call at a time on a well-formed snapshot, over all the arguments.
Init == Construct(WellFormedSnapshots(MaxRows))

Next ==
    \/ Call(MainThread, DimInputs, AnioInputs, ProductoInputs, ProyectoInputs)
    \/ Stage(MainThread)

Spec == Init /\ [][Next]_vars

\* One call at a time on the scenario snapshot, over the padded dimensions.
InitResolve == Construct({Frame(ScenarioRows, {}, "Float64")})

NextResolve ==
    \/ Call(MainThread, PaddedDims(MaxPad), {<<>>}, {<<>>, <<"A">>}, {<<>>})
    \/ Stage(MainThread)

SpecResolve == InitResolve /\ [][NextResolve]_vars

\* One call at a time on snapshots that may lack a declared column.
InitSchema ==
    Construct(WellFormedSnapshots(MaxRowsSmall) \cup FaultySnapshots(MaxRowsSmall))

NextSchema ==
    \/ Call(MainThread, Range(HierarchyKeys) \cup {<<"NotARealKey">>},
            {<<>>, <<0>>, <<2023>>}, {<<>>, <<"A">>}, {<<>>, <<"P1">>})
    \/ Stage(MainThread)

SpecSchema == InitSchema /\ [][NextSchema]_vars

\* Two calls in flight on one instance, their stages interleaved.
InitConc == Construct(WellFormedSnapshots(MaxRowsSmall))

NextConc ==
    \E t \in Threads :
        \/ Call(t, {<<"Anio", "_", "Producto">>, <<"NotARealKey">>},
                {<<>>, <<1999>>}, {<<>>, <<"A">>}, {<<>>})
        \/ Stage(t)

SpecConc == InitConc /\ [][NextConc]_vars

\* What pl.read_database gives load_data_from_dw: the table cannot be read,
\* it has no rows, or it has up to n rows.
EmptyTable == Frame(<<>>, {}, "Float64")

Reads(n) ==
    {[readable |-> FALSE, raw_df |-> EmptyFrame]}
        \cup {[readable |-> TRUE, raw_df |-> f] :
                f \in {EmptyTable} \cup {Frame(rows, {}, "Float64") : rows \in RowSeqs(n)}}

AuthorizationInputs ==
    { <<>>, <<DSS_ACCESS_TOKEN>>, <<PROJECT_LEAD_TOKEN>>, <<"Bearer Unknown">> }

Requests ==
    [authorization : AuthorizationInputs,
     region : { <<>>, <<"Norte">> },
     anio : AnioInputs,
     producto : { <<>>, <<"A">> },
     group_by_dimension :
        { <<"Anio">>, <<"Anio", "_", "Producto">>, <<"NotARealKey">> }]

\* The service: the startup load, then requests through the handler.
InitApi == Construct({Frame(ScenarioRows, {}, "Float64")})

NextApi ==
    \/ Startup(Reads(MaxRowsSmall))
    \/ Receive(Requests)
    \/ Authorize
    \/ CheckInstance
    \/ CallCube
    \/ Respond

SpecApi == InitApi /\ [][NextApi]_vars

\* The service with load_data_from_dw run again at any moment.
NextReload ==
    \/ Startup(Reads(MaxRowsSmall))
    \/ Reload(Reads(MaxRowsSmall))
    \/ Receive(Requests)
    \/ Authorize
    \/ CheckInstance
    \/ CallCube
    \/ Respond

SpecReload == InitApi /\ [][NextReload]_vars

----------------------------------------------------------------------------
(* Properties.                                                             *)

Registered(dim) == dim \in Range(HierarchyKeys)

Finished(t) == pc[t] \in {"Done", "Error"}

\* row satisfies column == value for every filter argument that is not None
SuppliedFiltersHold(row, a) ==
    /\ a.anio # <<>> => row["anio"] = a.anio[1]
    /\ a.producto # <<>> => row["producto"] = a.producto[1]
    /\ a.proyecto # <<>> => row["proyecto"] = a.proyecto[1]

\* C1: the rows that reach aggregation are exactly the snapshot rows that
\* satisfy column == value for every filter argument other than None, in
\* their original order; 0 and "" are values and constrain like any other.
C1_RowsReachingAggregation ==
    \A t \in Threads :
        pc[t] = "Aggregate" =>
            df[t].rows = SelectSeq(df_base.rows,
                                   LAMBDA r : SuppliedFiltersHold(r, args[t]))

\* C2: a call whose cleaned group_by_dimension is no key of HIERARCHY_MAP
\* ends in the ValueError that lists every key of HIERARCHY_MAP, whatever
\* the snapshot and the filters; it resolves no hierarchy and builds no row.
C2_InvalidHierarchyFails ==
    \A t \in Threads :
        (/\ pc[t] \notin {"Idle", "ResolveHierarchy"}
         /\ CleanDimension(args[t].group_by_dimension) \notin DOMAIN HIERARCHY_MAP)
        => /\ pc[t] = "Error"
           /\ error[t].type = "ValueError"
           /\ Range(error[t].keys) = DOMAIN HIERARCHY_MAP
           /\ Len(error[t].keys) = Cardinality(DOMAIN HIERARCHY_MAP)
           /\ groups[t] = <<>>
           /\ df_result[t] = EmptyFrame

C2_Witness ==
    \E t \in Threads :
        /\ pc[t] = "Error"
        /\ args[t].group_by_dimension = <<"NotARealKey">>
        /\ args[t].producto = <<"A">>
        /\ error[t] = InvalidHierarchyError

\* dim is the key k between two runs of invisible characters
IsPadded(dim, k) ==
    \E pre \in Pads(MaxPad), post \in Pads(MaxPad) : dim = pre \o k \o post

\* C3: a registered key preceded and followed by any sequence of whitespace,
\* U+FEFF and U+00A0 resolves to the key's hierarchy, never to the
\* invalid-hierarchy error.
C3_PaddedKeyResolves ==
    \A t \in Threads :
        \A k \in Range(HierarchyKeys) :
            (/\ pc[t] \notin {"Idle", "ResolveHierarchy"}
             /\ IsPadded(args[t].group_by_dimension, k))
            => /\ error[t] # InvalidHierarchyError
               /\ groups[t] = HIERARCHY_MAP[k]

\* C4: for a registered key h the result's grouping columns are
\* HIERARCHY_MAP[h], in that order and before the measures; no two result
\* rows have the same group-key tuple; and the tuples of the result are the
\* distinct tuples of the filtered rows.
C4_GroupColumnsAndDistinctKeys ==
    \A t \in Threads :
        (pc[t] = "Done" /\ Registered(args[t].group_by_dimension)) =>
            LET gs == HIERARCHY_MAP[args[t].group_by_dimension]
                out == df_result[t]
            IN  /\ Len(out.columns) >= Len(gs)
                /\ SubSeq(out.columns, 1, Len(gs)) = gs
                /\ \A i \in (Len(gs) + 1)..Len(out.columns) :
                       out.columns[i] \notin Range(DimensionColumns)
                /\ \A i \in DOMAIN out.rows :
                       DOMAIN out.rows[i] = Range(out.columns)
                /\ \A i, j \in DOMAIN out.rows :
                       i # j => GroupKey(out.rows[i], gs) # GroupKey(out.rows[j], gs)
                /\ {GroupKey(out.rows[i], gs) : i \in DOMAIN out.rows}
                       = {GroupKey(df[t].rows[i], gs) : i \in DOMAIN df[t].rows}

C4_Witness ==
    \E t \in Threads :
        /\ pc[t] = "Done"
        /\ args[t].group_by_dimension = <<"Anio", "_", "Producto">>
        /\ Len(df_result[t].rows) = 2
        /\ Len(df[t].rows) = 3

MeanMeasures ==
    {"cpi_index_promedio", "spi_index_promedio", "densidad_defectos_promedio"}

\* the rows of `rows` that carry the values of result row r in the columns gs
MembersOf(rows, r, gs) ==
    SelectSeq(rows, LAMBDA x : \A c \in Range(gs) : x[c] = r[c])

\* the cpi_index_promedio of each result row, beside its anio
AnioCpi(out) ==
    [i \in DOMAIN out.rows |->
        <<out.rows[i]["anio"], out.rows[i]["cpi_index_promedio"]>>]

\* C5: each result row's cpi_index_promedio, spi_index_promedio and
\* densidad_defectos_promedio is the arithmetic mean, and its
\* schedule_variance_sum the sum, over exactly the filtered rows of the
\* row's group; on the rows (2023,A,0.8), (2023,B,1.2), (2024,A,1.0) grouping
\* by Anio gives cpi 1.0 and 1.0, and 0.8 and 1.0 with the filter producto=A.
C5_MeasuresReduceTheGroup ==
    \A t \in Threads :
        pc[t] = "Done" =>
            LET out == df_result[t]
            IN  /\ \A i \in DOMAIN out.rows :
                       LET r == out.rows[i]
                           members == MembersOf(df[t].rows, r, groups[t])
                       IN  /\ Len(members) >= 1
                           /\ \A m \in MeanMeasures :
                                  /\ r[m].den >= 1
                                  /\ r[m].num * Len(members)
                                         = r[m].den * SumSeq(ColumnValues(members, m))
                                  /\ GCD(Abs(r[m].num), r[m].den) = 1
                           /\ r["schedule_variance_sum"]
                                  = SumSeq(ColumnValues(members, "schedule_variance_sum"))
                /\ (/\ df_base.rows = ScenarioRows
                    /\ args[t].group_by_dimension = <<"Anio">>
                    /\ args[t].anio = <<>> /\ args[t].proyecto = <<>>)
                   => /\ args[t].producto = <<>> =>
                          AnioCpi(out) = << <<2023, [num |-> 10, den |-> 1]>>,
                                            <<2024, [num |-> 10, den |-> 1]>> >>
                      /\ args[t].producto = <<"A">> =>
                          AnioCpi(out) = << <<2023, [num |-> 8, den |-> 1]>>,
                                            <<2024, [num |-> 10, den |-> 1]>> >>

C5_Witness ==
    \E t \in Threads :
        /\ pc[t] = "Done"
        /\ df_base.rows = ScenarioRows
        /\ args[t].group_by_dimension = <<"Anio">>
        /\ args[t].anio = <<>> /\ args[t].proyecto = <<>>
        /\ args[t].producto = <<"A">>
        /\ Len(df_result[t].rows) = 2

\* r1 does not sort after r2: the columns agree, or the first column where
\* they differ has the smaller value in r1
KeyLeq(r1, r2, gs) ==
    \/ \A k \in DOMAIN gs : r1[gs[k]] = r2[gs[k]]
    \/ \E k \in DOMAIN gs :
          /\ \A j \in 1..(k - 1) : r1[gs[j]] = r2[gs[j]]
          /\ ValueLess(gs[k], r1[gs[k]], r2[gs[k]])

\* C6: the result rows are in ascending order of the group-key tuple, the
\* hierarchy's columns compared left to right (anio then producto for
\* Anio_Producto, proyecto then anio for Proyecto_Anio).
C6_ResultSortedByGroupKey ==
    \A t \in Threads :
        (pc[t] = "Done" /\ Registered(args[t].group_by_dimension)) =>
            LET gs == HIERARCHY_MAP[args[t].group_by_dimension]
                rows == df_result[t].rows
            IN  \A i, j \in DOMAIN rows :
                    i < j => KeyLeq(rows[i], rows[j], gs)

C6_Witness ==
    \E t \in Threads :
        /\ pc[t] = "Done"
        /\ args[t].group_by_dimension = <<"Proyecto", "_", "Anio">>
        /\ Len(df_result[t].rows) = 3
        /\ df_base.rows[1]["proyecto"] = "P2"

\* no snapshot row satisfies every filter argument that is not None
FiltersExcludeEveryRow(a) ==
    \A i \in DOMAIN df_base.rows : ~SuppliedFiltersHold(df_base.rows[i], a)

\* C7: a valid-hierarchy call on a well-formed snapshot ends in Done with
\* zero rows when its filters exclude every snapshot row, raises no error,
\* and yields zero rows in no other case.
C7_ZeroRowsIffFiltersExcludeAll ==
    \A t \in Threads :
        (/\ Finished(t)
         /\ CleanDimension(args[t].group_by_dimension) \in DOMAIN HIERARCHY_MAP)
        => /\ pc[t] = "Done"
           /\ error[t] = NoError
           /\ (df_result[t].rows = <<>>) <=> FiltersExcludeEveryRow(args[t])

\* C8: whatever calls have run or are running, interleaved in any way,
\* df_base holds the rows, columns and column types it was built with (the
\* cast and the filter act on the call's own frame), and every finished call
\* has the outcome it has when it runs alone on the snapshot as built.
C8_SnapshotNeverModified ==
    /\ df_base = df_built
    /\ \A t \in Threads :
           /\ Finished(t) =>
                  /\ error[t] = OlapQuery(df_built, args[t]).error
                  /\ df_result[t] = OlapQuery(df_built, args[t]).frame
           /\ pc[t] \in {"ApplyFilters", "Aggregate"} =>
                  \A m \in DOMAIN df[t].dtypes : df[t].dtypes[m] = "Float64"

C8_Witness ==
    \E t, u \in Threads :
        /\ t # u
        /\ df_built.dtypes["schedule_variance_sum"] = "Int64"
        /\ pc[t] = "Done" /\ df_result[t].rows # <<>>
        /\ pc[u] = "Aggregate" /\ df[u].rows = <<>>
        /\ Len(df_base.rows) = 2

StageEdges ==
    { <<"Idle", "ResolveHierarchy">>,
      <<"ResolveHierarchy", "CoerceTypes">>, <<"ResolveHierarchy", "Error">>,
      <<"CoerceTypes", "ApplyFilters">>, <<"CoerceTypes", "Error">>,
      <<"ApplyFilters", "Aggregate">>, <<"ApplyFilters", "Error">>,
      <<"Aggregate", "Sort">>, <<"Aggregate", "Error">>,
      <<"Sort", "Done">>,
      <<"Done", "Idle">>, <<"Error", "Idle">> }

Running(t) ==
    pc[t] \in {"ResolveHierarchy", "CoerceTypes", "ApplyFilters", "Aggregate", "Sort"}

LacksMeasure(frame) ==
    \E m \in Range(VALID_MEASURES_NAMES) : ~HasColumn(frame, m)

\* the step of call t follows the pipeline, and a step into Error carries the
\* error of the stage it leaves
StageStep(t) ==
    pc'[t] # pc[t] =>
        /\ <<pc[t], pc'[t]>> \in StageEdges
        /\ pc'[t] = "Error" =>
               /\ error'[t] # NoError
               /\ pc[t] = "ResolveHierarchy" => error'[t] = InvalidHierarchyError
               /\ pc[t] = "CoerceTypes" =>
                      /\ error'[t].type = "ValueError"
                      /\ error'[t].column \in Range(VALID_MEASURES_NAMES)
                      /\ ~HasColumn(df_base, error'[t].column)
               /\ pc[t] \in {"ApplyFilters", "Aggregate"} =>
                      /\ error'[t].column \in Range(DimensionColumns)
                      /\ ~HasColumn(df_base, error'[t].column)

\* C9: a call goes through resolve hierarchy, coerce types, apply filters,
\* aggregate, sort in that order; the first stage that fails ends it with
\* that stage's error and no rows (an unregistered key on a snapshot that
\* also lacks a measure column gives the invalid-hierarchy error); a running
\* call can always take its next step, and it ends in Error without a result
\* or in Done with one row per group of the filtered rows.
C9_PipelineOrderAndShortCircuit ==
    /\ [][\A t \in Threads : StageStep(t)]_vars
    /\ [](\A t \in Threads :
            /\ pc[t] = "Error" => error[t] # NoError /\ df_result[t] = EmptyFrame
            /\ pc[t] # "Error" => error[t] = NoError
            /\ pc[t] = "Done" =>
                   /\ df_result[t].columns = groups[t] \o VALID_MEASURES_NAMES
                   /\ Len(df_result[t].rows)
                          = Cardinality(GroupKeysOf(df[t].rows, groups[t]))
            /\ (/\ pc[t] \notin {"Idle", "ResolveHierarchy"}
                /\ ~Registered(CleanDimension(args[t].group_by_dimension)))
               => pc[t] = "Error" /\ error[t] = InvalidHierarchyError
            /\ Running(t) => ENABLED Stage(t))

C9_Witness ==
    \E t \in Threads :
        /\ pc[t] = "Error"
        /\ args[t].group_by_dimension = <<"NotARealKey">>
        /\ LacksMeasure(df_base)
        /\ error[t] = InvalidHierarchyError

\* the columns the call needs: the four measures, the hierarchy's columns and
\* the column of every filter argument that is not None
NeededColumns(a, gs) ==
    Range(VALID_MEASURES_NAMES) \cup Range(gs)
        \cup (IF a.anio # <<>> THEN {"anio"} ELSE {})
        \cup (IF a.producto # <<>> THEN {"producto"} ELSE {})
        \cup (IF a.proyecto # <<>> THEN {"proyecto"} ELSE {})

\* C10: a call on a snapshot that lacks a declared column it needs, a measure
\* or a dimension used by the hierarchy or by a filter, fails with the schema
\* error, a ValueError.
C10_MissingColumnIsSchemaError ==
    \A t \in Threads :
        (/\ Finished(t)
         /\ Registered(args[t].group_by_dimension)
         /\ \E c \in NeededColumns(args[t], HIERARCHY_MAP[args[t].group_by_dimension]) :
                ~HasColumn(df_base, c))
        => /\ pc[t] = "Error"
           /\ error[t].type = "ValueError"
           /\ error[t] # InvalidHierarchyError

ResultKeys(frame, gs) == {GroupKey(frame.rows[i], gs) : i \in DOMAIN frame.rows}

\* the arguments of a with any of its filter entries left out (None)
WeakerFilters(a) ==
    [group_by_dimension : {a.group_by_dimension},
     anio : {<<>>, a.anio}, producto : {<<>>, a.producto},
     proyecto : {<<>>, a.proyecto}]

Unfiltered(a) ==
    [group_by_dimension |-> a.group_by_dimension, anio |-> <<>>,
     producto |-> <<>>, proyecto |-> <<>>]

\* C11: filter monotonicity: for a registered hierarchy and filter sets F1
\* contained in F2, the group-key tuples returned under F2 are among those
\* returned under F1, on every snapshot.
C11_FilterMonotonicity ==
    \A t \in Threads :
        (pc[t] = "Done" /\ Registered(args[t].group_by_dimension)) =>
            \A weaker \in WeakerFilters(args[t]) :
                LET gs == HIERARCHY_MAP[args[t].group_by_dimension]
                    other == OlapQuery(df_base, weaker)
                IN  /\ other.error = NoError
                    /\ ResultKeys(df_result[t], gs) \subseteq ResultKeys(other.frame, gs)

C11_Witness ==
    \E t \in Threads :
        /\ pc[t] = "Done"
        /\ args[t].group_by_dimension = <<"Anio", "_", "Producto">>
        /\ args[t].anio = <<2023>> /\ args[t].producto = <<"A">>
        /\ Len(df_result[t].rows) = 1
        /\ Cardinality(ResultKeys(OlapQuery(df_base, Unfiltered(args[t])).frame,
                                  <<"anio", "producto">>)) = 3

\* C12: for an unfiltered query on a registered hierarchy the
\* schedule_variance_sum of the result rows adds up to the sum of
\* schedule_variance_sum over every row of the snapshot.
C12_UnfilteredSumIsSnapshotSum ==
    \A t \in Threads :
        (/\ pc[t] = "Done"
         /\ Registered(args[t].group_by_dimension)
         /\ args[t] = Unfiltered(args[t]))
        => SumSeq(ColumnValues(df_result[t].rows, "schedule_variance_sum"))
               = SumSeq(ColumnValues(df_base.rows, "schedule_variance_sum"))

C12_Witness ==
    \E t \in Threads :
        /\ pc[t] = "Done"
        /\ args[t] = Unfiltered(args[t])
        /\ args[t].group_by_dimension = <<"Proyecto", "_", "Anio">>
        /\ Len(df_base.rows) = 3
        /\ Len(df_result[t].rows) = 2
        /\ SumSeq(ColumnValues(df_base.rows, "schedule_variance_sum")) = 20

\* C13: the same query (same key, same filters) run again on the unchanged
\* snapshot gives the same output, row order included, whatever order the
\* grouping emitted the groups in.
C13_RepeatedQuerySameOutput ==
    \A t, u \in Threads :
        (Finished(t) /\ Finished(u) /\ args[t] = args[u]) =>
            /\ df_result[t] = df_result[u]
            /\ error[t] = error[u]

C13_Witness ==
    \E t, u \in Threads :
        /\ t # u
        /\ pc[t] = "Done" /\ pc[u] = "Done"
        /\ args[t] = args[u]
        /\ Len(df_result[t].rows) = 2
        /\ df_result[t].rows[1]["anio"] = df_result[t].rows[2]["anio"]
        /\ df_base.rows[1]["producto"] = "B"

\* C14: OlapCube(frame) on a zero-row frame raises the empty-base error and
\* makes no instance, so no instance, the service's or a caller's own, has an
\* empty df_base; and after a startup load that failed the service holds no
\* instance and answers every authorized request with 503.
C14_EmptySnapshotNoInstance ==
    /\ df_base.rows # <<>>
    /\ olap_cube_instance.kind = "OlapCube" =>
            olap_cube_instance.df_base.rows # <<>>
    /\ (load.done /\ load.readable /\ load.raw_df.rows = <<>>) =>
            /\ load.error = EmptyBaseError
            /\ olap_cube_instance = NoneInstance
    /\ (load.done /\ load.error # NoError) =>
            /\ olap_cube_instance = NoneInstance
            /\ (h_pc = "Responded" /\ Authorized(request)) =>
                    response = [status |-> 503, exception |-> "", body |-> <<>>]

C14_Witness ==
    /\ load.done /\ load.readable /\ load.raw_df.rows = <<>>
    /\ load.error = EmptyBaseError
    /\ h_pc = "Responded"
    /\ Authorized(request)
    /\ response.status = 503

\* C15: a run of load_data_from_dw that fails (the table cannot be read or
\* has no rows) while a cube is loaded leaves olap_cube_instance as it was.
C15_FailedReloadKeepsSnapshot ==
    [][(load.done /\ load'.error # NoError
            /\ olap_cube_instance.kind = "OlapCube")
        => olap_cube_instance' = olap_cube_instance]_vars

\* the responses the handler gives to req when the cube is loaded from raw_df
\* and stays loaded for the whole request
ServedFrom(raw_df, req) ==
    ResponseOf(CallOlapQuery(NewOlapCube(raw_df).instance, req))

\* C16: with loads running between the steps of a request, the response to a
\* request that passed the check of line 118 is what the handler computes for
\* it from one loaded snapshot, the old or the new.
C16_QueryFromOneSnapshot ==
    (h_pc = "Responded" /\ Authorized(request) /\ response.status # 503) =>
        \E rd \in Reads(MaxRowsSmall) :
            /\ rd.readable
            /\ rd.raw_df.rows # <<>>
            /\ response = ServedFrom(rd.raw_df, request)

\* the request was authorized, found a cube and has been answered
Served ==
    /\ h_pc = "Responded"
    /\ Authorized(request)
    /\ olap_cube_instance.kind = "OlapCube"

\* what OlapCube.olap_query gives for the request's hierarchy key and filters
EngineOutcome == OlapQuery(olap_cube_instance.df_base, EngineArgs(request))

\* C17: the response is 404 when olap_query returns zero rows for the request,
\* 400 when it raises ValueError, and 500 only when it raises something else.
C17_OutcomesSignalledDistinctly ==
    Served =>
        /\ (EngineOutcome.error = NoError /\ EngineOutcome.frame.rows = <<>>)
                => response.status = 404
        /\ EngineOutcome.error.type = "ValueError" => response.status = 400
        /\ response.status = 500
                => EngineOutcome.error.type \notin {"None", "ValueError"}

\* C18: an authorized request with a registered group_by_dimension, on a loaded
\* cube, with filters that some row satisfies, is answered 200 with exactly
\* the rows olap_query returns for the same key and filters.
C18_BindingReturnsEngineRows ==
    (/\ Served
     /\ Registered(request.group_by_dimension)
     /\ \E i \in DOMAIN olap_cube_instance.df_base.rows :
            SuppliedFiltersHold(olap_cube_instance.df_base.rows[i],
                                EngineArgs(request)))
        => /\ response.status = 200
           /\ response.body = EngineOutcome.frame.rows

====
